---- MODULE Spec2Model ----
(***************************************************************************)
(* The dispatch engine of the `send` crate: a Framework owning a tree of   *)
(* actors, the derived Actor::accept traversal, MessageVisitor::visit, the *)
(* Receiver lookup, and the Context handed to a reacting actor through     *)
(* which it dispatches again while the outer traversal is on the stack.    *)
(*                                                                         *)
(* Rust calls are modelled by an explicit call stack: one frame per active *)
(* `accept` (with the index of the next statement of its derived body) and *)
(* one per active `receive` (with the index of the next statement of the   *)
(* handler).  A dispatch issued through Context pushes its frames on top   *)
(* of the frame of the handler that issued it.                             *)
(*                                                                         *)
(* src/send-derive/src/lib.rs is the root of the derive crate and its      *)
(* #[proc_macro_derive(Actor)] calls the actor_struct defined in that      *)
(* file; src/send-derive/src/actor.rs is not declared as a module of the   *)
(* crate (no `mod actor;`), so the accept the build generates is the one   *)
(* of lib.rs:49-57.                                                        *)
(***************************************************************************)
EXTENDS Integers, Sequences, FiniteSets, TLC

\* ------------------------------------------------------------------ bounds

\* Calls made on the Framework of the test application in one run.
MaxCalls == 3

\* Largest literal carried by a payload built by the caller.
MaxVal == 1

\* Frames the call stack holds before it overflows.
MaxDepth == 14

\* ---------------------------------------------------------------- payloads

Increment == "Increment"
Decrement == "Decrement"
PayloadTypes == {Increment, Decrement}

\* u16 arithmetic of the counters (release build: wrapping).
U16 == 65536

\* ------------------------------------------------------------------- trees

\* A tree is the sequence, indexed by node, of each node's child fields in
\* declaration order.  Node 1 is the root handed to Framework::new.
Root == 1

\* Root { data, counter, child: Child { counter, child: ChildChild { counter } } }
Chain == << <<2>>, <<3>>, <<>> >>

\* A root declaring two actor fields: node 3 first, node 2 second.
Fork == << <<3, 2>>, <<>>, <<>> >>

Trees == {Chain, Fork}

NodesOf(t) == 1..Len(t)

\* ---------------------------------------------------------------- handlers

\* A handler body is a sequence of statements.
Stmt(op, ty, val, to) == [op |-> op, ty |-> ty, val |-> val, to |-> to]

\* self.counter += message.0
Add == Stmt("add", "", 0, 0)

\* self.counter -= message.0
Sub == Stmt("sub", "", 0, 0)

\* self.data.data += 1 (a handler of the root, which owns `data`)
Bump == Stmt("bump", "", 0, 0)

\* message.0 += 1 (the handler writes to the `&mut M` it is given)
Grow == Stmt("grow", "", 0, 0)

\* context.<op>(self, &mut Decrement(1), getter) and the `with` forms
\* context.<op>(self, |root| &root.data, |data| Decrement(data.data), getter)
CtxOps == {"broadcast", "send", "send_sub", "send_with", "send_to_with", "send_sub_with"}

Targeted(op) == op \in {"send", "send_sub", "send_to_with", "send_sub_with"}

CtxStmts(t) ==
    {Stmt(op, Decrement, 1, IF Targeted(op) THEN to ELSE Root) :
        op \in CtxOps, to \in NodesOf(t)}

\* The Receiver impls of a node type: payload type -> body.  The empty body
\* is the blanket `default fn receive` (no reception capability).
NoBody == << >>

\* a node type with no Receiver impl of its own
Plain == [Increment |-> NoBody, Decrement |-> NoBody]

\* impl Receiver<Increment, Root> for Root / Child / ChildChild
Counter == [Increment |-> <<Add>>, Decrement |-> NoBody]

\* reacts to Increment (+n) and Decrement (-n)
CounterDec == [Increment |-> <<Add>>, Decrement |-> <<Sub>>]

\* reacts to Decrement only
DecOnly == [Increment |-> NoBody, Decrement |-> <<Sub>>]

\* reacts to Increment by adding n and bumping the root's data field
Bumper == [Increment |-> <<Add, Bump>>, Decrement |-> NoBody]

\* reacts to Increment by adding n, then dispatching through its Context
Nester(s) == [Increment |-> <<Add, s>>, Decrement |-> NoBody]

\* reacts to Decrement by subtracting n, then dispatching through its Context
Relay(s) == [Increment |-> NoBody, Decrement |-> <<Sub, s>>]

\* reacts to Increment by adding n, then raising the payload by one
Grower == [Increment |-> <<Add, Grow>>, Decrement |-> NoBody]

\* reacts to Increment by raising the payload by one
GrowOnly == [Increment |-> <<Grow>>, Decrement |-> NoBody]

PlainTypes == {Counter, CounterDec, DecOnly}

\* The applications: a tree and the Receiver impls of its node types.  In
\* the first family no handler dispatches; in the second, node k dispatches a
\* Decrement from its Increment handler and every other node below the root
\* reacts to Decrement.
Apps ==
    UNION { LET N == NodesOf(t)
                RootTypes == PlainTypes \cup {Bumper, Plain}
                Quiet == {r \in [N -> RootTypes] :
                             \A n \in N \ {Root} : r[n] \in PlainTypes}
                Loud == {r \in Quiet :
                             \A n \in N \ {Root} : r[n] \in {CounterDec, DecOnly}}
            IN  {[tree |-> t, recv |-> r] : r \in Quiet}
                \cup
                {[tree |-> t, recv |-> [r EXCEPT ![k] = Nester(s)]] :
                    r \in Loud, k \in N, s \in CtxStmts(t)}
          : t \in Trees }

\* Applications in which a nested dispatch triggers a further one: node a
\* broadcasts Decrement(1) from its Increment handler, node b sends
\* Increment(1) to node c, which reacts to both, from its Decrement handler.
DeepApps ==
    {[tree |-> x[1],
      recv |-> [n \in NodesOf(x[1]) |->
                   IF n = x[2] THEN Nester(Stmt("broadcast", Decrement, 1, Root))
                   ELSE IF n = x[3] THEN Relay(Stmt("send", Increment, 1, x[4]))
                   ELSE CounterDec]] :
        x \in {y \in Trees \X (1..3) \X (1..3) \X (1..3) :
                  /\ {y[2], y[3], y[4]} \subseteq NodesOf(y[1])
                  /\ Cardinality({y[2], y[3], y[4]}) = 3}}

\* Scenario C: Root reacts to Increment, Child to Increment and Decrement,
\* ChildChild to Increment by adding n and broadcasting Decrement(1).
ScenarioC ==
    [tree |-> Chain,
     recv |-> <<Counter, CounterDec, Nester(Stmt("broadcast", Decrement, 1, Root))>>]

\* The application of tests.rs: the chain, every node reacting to Increment.
TestApp == [tree |-> Chain, recv |-> [n \in NodesOf(Chain) |-> Counter]]

\* ------------------------------------------------------------------- state

VARIABLES
    app,        \* the tree and the Receiver impls (fixed by construction)
    counter,    \* node -> its `counter: u16` field
    data,       \* root.data.data
    stack,      \* the call stack below Framework's entry point, top last
    msgs,       \* the payloads of the current call's dispatches, by dispatch
    log,        \* history of the current call: visits and handler returns
    base,       \* history: the tree's fields when the current call was made
    expected,   \* history: per node, the sum sent to it by completed scopes
    calls,      \* calls made on the Framework so far
    budget      \* calls this run makes

vars == <<app, counter, data, stack, msgs, log, base, expected, calls, budget>>

Nodes == NodesOf(app.tree)

Children(n) == app.tree[n]

\* --------------------------------------------------------------- the crate

\* The body the derive generates for a struct: `visitor.visit(self);` and
\* then `self.<field>.accept(visitor);` for each field in declaration order.
\* 0 stands for the visit of self, a node for the accept of that field.  The
\* scalar fields (counter, data) take the blanket `default fn accept`, an
\* empty body, and are left out.
accept_children_first(n) == Children(n) \o <<0>>

accept_reversed(n) == <<0>> \o [i \in 1..Len(Children(n)) |-> Children(n)[Len(Children(n)) + 1 - i]]

accept_twice(n) == <<0>> \o Children(n) \o <<0>>

\* (a variant that goes on into the fields only when the node reacts to the
\* payload of the running dispatch)
accept_if_reacting(n) ==
    IF app.recv[n][msgs[stack[Len(stack)].d].ty] # << >>
    THEN <<0>> \o Children(n) ELSE <<0>>

accept(n) == <<0>> \o Children(n)

\* What a node is: a struct or an enum deriving Actor, a type left with the
\* blanket `default fn accept`, or one of the std types of actor.rs:62-244.
\* The applications built of derived structs alone carry no `kind`.
Kind(n) == IF "kind" \in DOMAIN app THEN app.kind[n] ELSE "struct"

\* The body the derive generates for an enum: `match self { .. }`, each arm
\* accepting the fields of its variant in declaration order.  Children(n) are
\* the fields of the variant the node holds.
actor_enum_visits_self(n) == <<0>> \o Children(n)

actor_enum(n) == Children(n)

\* `default fn accept(&mut self, _: &mut impl ActorVisitor<V, R>) {}`
default_accept_visits_self(n) == <<0>>

default_accept(n) == << >>

\* Option: `if let Some(v) = self.as_mut() { v.accept(visitor) }`; Result: the
\* side it holds; Box and RefCell: their content.  Children(n) is the value
\* held, if any.
accept_held_and_self(n) == <<0>> \o Children(n)

accept_held(n) == Children(n)

\* [T], [T; N], Vec, VecDeque, LinkedList, tuples: `for v in self
\* { v.accept(visitor) }`, the elements in iteration order.
accept_each_twice(n) == Children(n) \o Children(n)

accept_each(n) == Children(n)

\* HashMap, BTreeMap: `for v in self { v.1.accept(visitor) }`.  Children(n)
\* are the values in iteration order; the keys are app.keys[n].
Keys(n) == IF "keys" \in DOMAIN app THEN app.keys[n] ELSE << >>

accept_keys_and_values(n) == Keys(n) \o Children(n)

accept_values(n) == Children(n)

\* &T, &mut T: `self.accept(visitor)` with self: &mut &T, which method
\* resolution binds to this very accept.
accept_ref(n) == <<n>>

\* Actor::accept as the compiler selects it for the node's type
Actor_accept(n) ==
    CASE Kind(n) = "struct"  -> accept(n)
      [] Kind(n) = "enum"    -> actor_enum(n)
      [] Kind(n) = "default" -> default_accept(n)
      [] Kind(n) = "held"    -> accept_held(n)
      [] Kind(n) = "each"    -> accept_each(n)
      [] Kind(n) = "map"     -> accept_values(n)
      [] Kind(n) = "ref"     -> accept_ref(n)

\* The Receiver impl the compiler selects for (node type, payload type):
\* the user's impl when there is one, else the blanket default.
\* the node type has a Receiver impl of its own for the payload type
Receives(n, ty) == app.recv[n][ty] # NoBody

receive_default_adds(n, ty) == IF Receives(n, ty) THEN app.recv[n][ty] ELSE <<Add>>

receive(n, ty) == app.recv[n][ty]

\* MessageVisitor { message, root }: the payload a dispatch carries (ty, val),
\* with, as history, the addressing of the dispatch, the handler that issued
\* it (from, parent; 0 for the Framework), the value the payload was built
\* with (sent), the root's data at that moment (seen) and, for a dispatch
\* issued by a handler, the counter its node had at that moment (held).
MessageVisitor(ty, val, mode, to, from, parent, with, fields) ==
    [ty |-> ty, val |-> val, mode |-> mode, to |-> to,
     from |-> from, parent |-> parent, with |-> with, fields |-> fields,
     sent |-> val, seen |-> data,
     held |-> IF from = 0 THEN 0 ELSE counter[from]]

Frame(op, n, d) == [op |-> op, node |-> n, i |-> 1, d |-> d]

Top == stack[Len(stack)]

Pop(s) == SubSeq(s, 1, Len(s) - 1)

\* the caller's frame moves to its next statement as the callee is entered
Advance(s) == [s EXCEPT ![Len(s)].i = @ + 1]

\* a history entry: what happened, in which dispatch, at which node, and the
\* node's counter at that moment
Event(ev, d, n) == [ev |-> ev, d |-> d, node |-> n, at |-> counter[n]]

\* MessageVisitor::visit: `actor.receive(self.message, Context::new(self.root))`
visit(s, n, d) == Append(s, Frame("receive", n, d))

\* The three ways a dispatch starts: `root.accept(&mut visitor)`,
\* `visitor.visit(getter(root))`, `getter(root).accept(&mut visitor)`.
send_sub_for_send(s, mode, to, d) == Append(s, Frame("accept", to, d))

broadcast_for_all(s, mode, to, d) ==
    IF mode = "send" THEN visit(s, to, d) ELSE Append(s, Frame("accept", Root, d))

\* the dispatch is put off until the frame that issued it has returned
start_deferred(s, mode, to, d) ==
    LET f == IF mode = "send" THEN Frame("receive", to, d) ELSE Frame("accept", to, d)
    IN  IF s = << >> THEN <<f>> ELSE Append(Pop(s), f) \o <<s[Len(s)]>>

Start(s, mode, to, d) ==
    IF mode = "send" THEN visit(s, to, d) ELSE Append(s, Frame("accept", to, d))

StartLog(l, mode, to, d) ==
    IF mode = "send" THEN Append(l, Event("visit", d, to)) ELSE l

\* `selector`: |root| &root.data ; `creator`: |data| M(data.data)
selector == data

creator(fields) == fields

\* What the selector of a `with` form returns: 0 stands for |root| &root.data,
\* a node k for a selector returning that node, an Actor, whose creator is
\* |node| M(node.counter).
select(k) == IF k = 0 THEN selector ELSE counter[k]

\* The selectors an application's callers and handlers use.
Selectors == IF "build" \in DOMAIN app THEN {0} \cup Nodes ELSE {0}

\* `F: NotActor`: an auto trait, which every type implements unless an
\* `impl !NotActor` says otherwise, and the derive of lib.rs:49-57 emits none.
NotActor_of_actor_rs(k) == k = 0

NotActor(k) == TRUE

\* `F::is_actor()`: whether the selected fields are an Actor
is_actor(k) == k # 0

\* debug_assert! is compiled in debug builds only
Build == IF "build" \in DOMAIN app THEN app.build ELSE "debug"

debug_assert_always(cond) == cond

debug_assert(cond) == Build = "debug" => cond

\* the value a handler reads from the `&mut M` it is given
message_by_reference(d) == IF msgs[d].with THEN data ELSE msgs[d].val

\* each handler is handed a copy of the payload as it was dispatched
message_by_value(d) == msgs[d].sent

message(d) == msgs[d].val

\* -------------------------------------------------------------- Framework

\* Framework::new(root): the test application is driven through a sequence
\* of calls with its counters at 0 (tests.rs:44-51); every other application
\* gets one call, its counters at 2.
Init ==
    /\ app \in Apps \cup DeepApps \cup {TestApp}
    /\ budget \in {1, MaxCalls}
    /\ budget = MaxCalls <=> app = TestApp
    /\ counter = [n \in Nodes |-> IF app = TestApp THEN 0 ELSE 2]
    /\ data = 1
    /\ stack = << >>
    /\ msgs = << >>
    /\ log = << >>
    /\ base = [counter |-> counter, data |-> data]
    /\ expected = counter
    /\ calls = 0

\* the nodes a dispatch is addressed to
RECURSIVE Closure(_)
Closure(S) ==
    LET T == S \cup UNION {{Children(m)[j] : j \in 1..Len(Children(m))} : m \in S}
    IN  IF T = S THEN S ELSE Closure(T)

Descendants(n) == Closure({n})

Scope(mode, to) ==
    CASE mode = "broadcast" -> Nodes
      [] mode = "send"      -> {to}
      [] mode = "send_sub"  -> Descendants(to)

\* the nodes a getter can return: a map hands out no `&mut` to its keys
Targets == Nodes \ UNION {{Keys(m)[j] : j \in 1..Len(Keys(m))} : m \in Nodes}

\* A call from outside: the visitor is built over `message` and the dispatch
\* starts; the histories of the previous call are dropped.
Call(mode, to, ty, val, with, fields) ==
    /\ stack = << >>
    /\ calls < budget
    /\ msgs' = << MessageVisitor(ty, val, mode, to, 0, 0, with, fields) >>
    /\ stack' = Start(<< >>, mode, to, 1)
    /\ log' = StartLog(<< >>, mode, to, 1)
    /\ base' = [counter |-> counter, data |-> data]
    /\ expected' = [n \in Nodes |->
                       IF ty = Increment /\ n \in Scope(mode, to)
                       THEN expected[n] + val ELSE expected[n]]
    /\ calls' = calls + 1
    /\ UNCHANGED <<app, counter, data, budget>>

\* Framework::send
send ==
    \E ty \in PayloadTypes, val \in 1..MaxVal :
        Call("broadcast", Root, ty, val, FALSE, 0)

\* Framework::send_to
send_to ==
    \E ty \in PayloadTypes, val \in 1..MaxVal, to \in Targets :
        Call("send", to, ty, val, FALSE, 0)

\* Framework::send_sub
send_sub ==
    \E ty \in PayloadTypes, val \in 1..MaxVal, to \in Targets :
        Call("send_sub", to, ty, val, FALSE, 0)

\* Framework::send_with: fields = selector(root); self.send(&mut creator(fields))
send_with ==
    \E ty \in PayloadTypes, k \in Selectors :
        /\ NotActor(k)
        /\ Call("broadcast", Root, ty, creator(select(k)), TRUE, k)

\* Framework::send_to_with
send_to_with ==
    \E ty \in PayloadTypes, to \in Targets, k \in Selectors :
        /\ NotActor(k)
        /\ Call("send", to, ty, creator(select(k)), TRUE, k)

\* Framework::send_sub_with
send_sub_with ==
    \E ty \in PayloadTypes, to \in Targets, k \in Selectors :
        /\ NotActor(k)
        /\ Call("send_sub", to, ty, creator(select(k)), TRUE, k)

\* ----------------------------------------------------------------- accept

InAccept == stack # << >> /\ Top.op = "accept"

\* `visitor.visit(self);`
AcceptVisit ==
    /\ InAccept
    /\ Top.i <= Len(Actor_accept(Top.node))
    /\ Actor_accept(Top.node)[Top.i] = 0
    /\ Len(stack) < MaxDepth
    /\ stack' = visit(Advance(stack), Top.node, Top.d)
    /\ log' = Append(log, Event("visit", Top.d, Top.node))
    /\ UNCHANGED <<app, counter, data, msgs, base, expected, calls, budget>>

\* `self.<field>.accept(visitor);`
AcceptField ==
    /\ InAccept
    /\ Top.i <= Len(Actor_accept(Top.node))
    /\ Actor_accept(Top.node)[Top.i] # 0
    /\ Len(stack) < MaxDepth
    /\ stack' = Append(Advance(stack), Frame("accept", Actor_accept(Top.node)[Top.i], Top.d))
    /\ UNCHANGED <<app, counter, data, msgs, log, base, expected, calls, budget>>

\* the end of the body of accept
AcceptReturn ==
    /\ InAccept
    /\ Top.i > Len(Actor_accept(Top.node))
    /\ stack' = Pop(stack)
    /\ UNCHANGED <<app, counter, data, msgs, log, base, expected, calls, budget>>

\* ---------------------------------------------------------------- receive

InReceive == stack # << >> /\ Top.op = "receive"

Body == receive(Top.node, msgs[Top.d].ty)

AtStmt(op) ==
    /\ InReceive
    /\ Top.i <= Len(Body)
    /\ Body[Top.i].op = op

\* self.counter += message.0
HandlerAdd ==
    /\ AtStmt("add")
    /\ counter' = [counter EXCEPT ![Top.node] = (@ + message(Top.d)) % U16]
    /\ stack' = Advance(stack)
    /\ UNCHANGED <<app, data, msgs, log, base, expected, calls, budget>>

\* self.counter -= message.0
HandlerSub ==
    /\ AtStmt("sub")
    /\ counter' = [counter EXCEPT ![Top.node] = (@ - message(Top.d)) % U16]
    /\ stack' = Advance(stack)
    /\ UNCHANGED <<app, data, msgs, log, base, expected, calls, budget>>

\* self.data.data += 1
HandlerBump ==
    /\ AtStmt("bump")
    /\ data' = (data + 1) % U16
    /\ stack' = Advance(stack)
    /\ UNCHANGED <<app, counter, msgs, log, base, expected, calls, budget>>

\* message.0 += 1
HandlerGrow ==
    /\ AtStmt("grow")
    /\ msgs' = [msgs EXCEPT ![Top.d].val = (@ + 1) % U16]
    /\ stack' = Advance(stack)
    /\ UNCHANGED <<app, counter, data, log, base, expected, calls, budget>>

\* the dispatches the running handler has issued and that have returned
Issued == {e \in 1..Len(msgs) : msgs[e].parent = Top.d /\ msgs[e].from = Top.node}

\* `self.counter += message.0` after a dispatch of this handler has returned
\* that wrote to this node. The nested dispatch reached the node through a
\* `&mut` made of the root pointer while the handler's `&mut self` was live:
\* the two alias, which is undefined behaviour, and an optimized build may
\* keep in a register the counter the handler held when it issued the
\* dispatch. This is the outcome where it does (HandlerAdd is the other).
HandlerAddHeld ==
    /\ AtStmt("add")
    /\ Issued # {}
    /\ LET e == CHOOSE x \in Issued : \A y \in Issued : y <= x
       IN  /\ msgs[e].held # counter[Top.node]
           /\ counter' = [counter EXCEPT ![Top.node] = (msgs[e].held + message(Top.d)) % U16]
    /\ stack' = Advance(stack)
    /\ UNCHANGED <<app, data, msgs, log, base, expected, calls, budget>>

\* the end of the body of receive; the blanket default body is empty
ReceiveReturn ==
    /\ InReceive
    /\ Top.i > Len(Body)
    /\ stack' = Pop(stack)
    /\ log' = Append(log, Event("return", Top.d, Top.node))
    /\ UNCHANGED <<app, counter, data, msgs, base, expected, calls, budget>>

\* ---------------------------------------------------------------- Context

\* A dispatch from inside a handler: a new visitor over the new payload and
\* the same root, started while the handler's frame waits.
nested_from_self(mode, to, val, with, fields) ==
    /\ Len(stack) < MaxDepth
    /\ msgs' = Append(msgs, MessageVisitor(Body[Top.i].ty, val, mode, to,
                                           Top.node, Top.d, with, fields))
    /\ stack' = Start(Advance(stack), mode,
                      IF mode = "broadcast" THEN Top.node ELSE to, Len(msgs) + 1)
    /\ log' = StartLog(log, mode, to, Len(msgs) + 1)
    /\ UNCHANGED <<app, counter, data, base, expected, calls, budget>>

Nested(mode, to, val, with, fields) ==
    /\ Len(stack) < MaxDepth
    /\ msgs' = Append(msgs, MessageVisitor(Body[Top.i].ty, val, mode, to,
                                           Top.node, Top.d, with, fields))
    /\ stack' = Start(Advance(stack), mode, to, Len(msgs) + 1)
    /\ log' = StartLog(log, mode, to, Len(msgs) + 1)
    /\ UNCHANGED <<app, counter, data, base, expected, calls, budget>>

\* the selector a `with` statement of a handler passes
SelOf(s) == IF "sel" \in DOMAIN s THEN s.sel ELSE 0

\* a failed assertion: the thread panics inside the handler
Panic ==
    /\ stack' = Append(stack, Frame("panic", Top.node, Top.d))
    /\ log' = Append(log, Event("panic", Top.d, Top.node))
    /\ UNCHANGED <<app, counter, data, msgs, base, expected, calls, budget>>

\* the body shared by the `with` forms of Context: fields = selector(root);
\* debug_assert!(!F::is_actor()); then the plain form with creator(fields)
NestedWith(mode, to) ==
    LET k == SelOf(Body[Top.i])
    IN  IF debug_assert(~is_actor(k))
        THEN Nested(mode, to, creator(select(k)), TRUE, k)
        ELSE Panic

\* Context::broadcast
ContextBroadcast ==
    /\ AtStmt("broadcast")
    /\ Nested("broadcast", Root, Body[Top.i].val, FALSE, 0)

\* Context::send
ContextSend ==
    /\ AtStmt("send")
    /\ Nested("send", Body[Top.i].to, Body[Top.i].val, FALSE, 0)

\* Context::send_sub
ContextSendSub ==
    /\ AtStmt("send_sub")
    /\ Nested("send_sub", Body[Top.i].to, Body[Top.i].val, FALSE, 0)

\* Context::send_with: fields = selector(root); broadcast(creator(fields))
ContextSendWith ==
    /\ AtStmt("send_with")
    /\ NestedWith("broadcast", Root)

\* Context::send_to_with
ContextSendToWith ==
    /\ AtStmt("send_to_with")
    /\ NestedWith("send", Body[Top.i].to)

\* Context::send_sub_with
ContextSendSubWith ==
    /\ AtStmt("send_sub_with")
    /\ NestedWith("send_sub", Body[Top.i].to)

\* ----------------------------------------------------------- specification

Next ==
    \/ send
    \/ send_to
    \/ send_sub
    \/ send_with
    \/ send_to_with
    \/ send_sub_with
    \/ AcceptVisit
    \/ AcceptField
    \/ AcceptReturn
    \/ HandlerAdd
    \/ HandlerSub
    \/ HandlerBump
    \/ ReceiveReturn
    \/ ContextBroadcast
    \/ ContextSend
    \/ ContextSendSub
    \/ ContextSendWith
    \/ ContextSendToWith
    \/ ContextSendSubWith

Spec == Init /\ [][Next]_vars

\* ------------------------------------------- the wider family of programs

\* context.<op>(self, |root| &mut root.<k>, |node| Decrement(node.counter), getter):
\* a `with` form whose selector returns a node of the tree
AliasStmt(op, k) == [op |-> op, ty |-> Decrement, val |-> 0, to |-> 2, sel |-> k]

\* derived structs whose handlers use each operation of Context
StructApps ==
    {[tree |-> Chain, recv |-> <<Bumper, CounterDec, Nester(s)>>] : s \in CtxStmts(Chain)}

\* the chain, built in debug or in release, ChildChild reacting to Increment
\* with a `with` form that selects a node
AliasApps ==
    {[tree |-> Chain,
      recv |-> <<Counter, CounterDec, Nester(AliasStmt(op, k))>>,
      build |-> b] :
        op \in {"send_with", "send_to_with", "send_sub_with"},
        k \in NodesOf(Chain),
        b \in {"debug", "release"}}

\* trees in which some handlers write to the payload they are handed
EventApps ==
    UNION { {[tree |-> t, recv |-> r] :
                r \in {q \in [NodesOf(t) -> {Counter, Grower, GrowOnly, Plain}] :
                          \E n \in NodesOf(t) : q[n] \in {Grower, GrowOnly}}}
          : t \in Trees }

\* Two further shapes: a root with one field and nothing below it, and a
\* root whose field holds two values and, when it is a map, a key (node 5).
Pair == << <<2>>, <<>> >>

Wide == << <<2>>, <<3, 4>>, <<>>, <<>>, <<>> >>

\* a program built of the nodes of tree t, of kinds k, each reacting to
\* Increment and Decrement; keys lists the keys of the maps
Program(t, k, keys) ==
    [tree |-> t, recv |-> [n \in NodesOf(t) |-> CounterDec], kind |-> k, keys |-> keys]

NoKeys(t) == [n \in NodesOf(t) |-> << >>]

\* programs with enums deriving Actor: every way of making some nodes of the
\* chain, the fork and the pair an enum (the pair's: a unit variant held)
EnumApps ==
    UNION { {Program(t, k, NoKeys(t)) :
                k \in {q \in [NodesOf(t) -> {"struct", "enum"}] :
                          \E n \in NodesOf(t) : q[n] = "enum"}}
          : t \in {Chain, Fork, Pair} }

\* programs whose last node is a type that does not derive Actor but has
\* Receiver impls
LeafApps ==
    {Program(t, [n \in NodesOf(t) |-> IF n = Len(t) THEN "default" ELSE "struct"], NoKeys(t)) :
        t \in {Chain, Fork, Pair}}

\* programs whose root has a field of a std container type: an Option, Result
\* or Box (holding node 3 or, the Option, nothing), a list of two, a map of
\* two values and one key
ContainerApps ==
    { Program(Chain, <<"struct", "held", "struct">>, NoKeys(Chain)),
      Program(Pair, <<"struct", "held">>, NoKeys(Pair)),
      Program(Wide, <<"struct", "each", "struct", "struct", "struct">>, NoKeys(Wide)),
      Program(Wide, <<"struct", "map", "struct", "struct", "struct">>,
              [NoKeys(Wide) EXCEPT ![2] = <<5>>]),
      Program(<< <<2>>, <<3>>, <<4>>, <<>> >>, <<"struct", "each", "held", "struct">>,
              NoKeys(<< <<2>>, <<3>>, <<4>>, <<>> >>)) }

\* programs whose root has a field of type &T
RefApps ==
    {Program(Chain, <<"struct", "ref", "struct">>, NoKeys(Chain))}

\* reacts to Increment by adding n and dispatching an Increment again
Echo(s) == [Increment |-> <<Add, s>>, Decrement |-> NoBody]

\* reacts to Increment by adding n and dispatching, and to Decrement
NesterDec(s) == [Increment |-> <<Add, s>>, Decrement |-> <<Sub>>]

\* programs in which node k reacts to Increment by dispatching Increment(1)
\* to a scope that holds k
SelfApps ==
    UNION { {[tree |-> t, recv |-> [n \in NodesOf(t) |->
                  IF n = k THEN Echo(Stmt(op, Increment, 1, IF op = "broadcast" THEN Root ELSE k))
                  ELSE Counter]] :
                k \in NodesOf(t), op \in {"broadcast", "send", "send_sub"}}
          : t \in Trees }

\* reacts to Increment by adding n, dispatching and adding n again, and to
\* Decrement
Resumer(s) == [Increment |-> <<Add, s, Add>>, Decrement |-> <<Sub>>]

\* programs in which node k reacts to Increment by broadcasting Decrement(1),
\* going on or not when the broadcast has returned, and reacts to Decrement
\* itself
ReentrantApps ==
    UNION { {[tree |-> t, recv |-> [n \in NodesOf(t) |->
                  IF n = k THEN h ELSE CounterDec]] :
                k \in NodesOf(t),
                h \in {NesterDec(Stmt("broadcast", Decrement, 1, Root)),
                       Resumer(Stmt("broadcast", Decrement, 1, Root))}}
          : t \in Trees }

ExtApps ==
    StructApps \cup AliasApps \cup EventApps \cup EnumApps \cup LeafApps
        \cup ContainerApps \cup RefApps \cup SelfApps \cup ReentrantApps

\* Framework::new(root) for these programs: one call, the counters at 2
ExtInit ==
    /\ app \in ExtApps
    /\ budget = 1
    /\ counter = [n \in Nodes |-> 2]
    /\ data = 1
    /\ stack = << >>
    /\ msgs = << >>
    /\ log = << >>
    /\ base = [counter |-> counter, data |-> data]
    /\ expected = counter
    /\ calls = 0

ExtNext ==
    \/ Next
    \/ HandlerGrow
    \/ HandlerAddHeld

ExtSpec == ExtInit /\ [][ExtNext]_vars

\* ------------------------------------------------------ reading histories

Dispatches == 1..Len(msgs)

\* the call has returned to the caller of the Framework
Done == stack = << >> /\ calls > 0

\* dispatch d still has a frame on the stack
Active(d) == \E k \in 1..Len(stack) : stack[k].d = d

Finished(d) == d \in Dispatches /\ ~Active(d)

EventsOf(d, ev) == SelectSeq(log, LAMBDA e : e.d = d /\ e.ev = ev)

\* the nodes offered to the visitor of dispatch d, in the order of the offers
Visits(d) == [k \in 1..Len(EventsOf(d, "visit")) |-> EventsOf(d, "visit")[k].node]

IsPrefix(a, b) == Len(a) <= Len(b) /\ a = SubSeq(b, 1, Len(a))

\* the pre-order of the subtree of n: n, then the pre-order of each child in
\* declaration order
RECURSIVE PreOrder(_), PreOrderAll(_)
PreOrder(n) == <<n>> \o PreOrderAll(Children(n))
PreOrderAll(cs) ==
    IF cs = << >> THEN << >> ELSE PreOrder(Head(cs)) \o PreOrderAll(Tail(cs))

ScopeOf(d) == Scope(msgs[d].mode, msgs[d].to)

\* the dispatches a handler activation of dispatch d has issued, and theirs
RECURSIVE Triggered(_)
Triggered(D) ==
    LET E == D \cup {e \in Dispatches : msgs[e].parent \in D}
    IN  IF E = D THEN D ELSE Triggered(E)

\* no handler has issued a dispatch during the current call
NoNested == Len(msgs) = 1

\* ------------------------------------------------------------------ claims

\* C1: a broadcast made with Framework::send offers the nodes of the tree to
\* the visitor in pre-order: at every moment the offers made so far are an
\* initial part of the pre-order listing of the tree (every node once, a node
\* before its children, children in declared field order), and when the
\* broadcast has returned they are the whole listing.
C1_BroadcastPreOrder ==
    \A d \in Dispatches :
        (msgs[d].mode = "broadcast" /\ msgs[d].from = 0) =>
            /\ IsPrefix(Visits(d), PreOrder(Root))
            /\ Finished(d) => Visits(d) = PreOrder(Root)

\* a broadcast has returned in the tree whose root declares node 3 before
\* node 2
C1_Witness ==
    /\ Done
    /\ app.tree = Fork
    /\ msgs[1].mode = "broadcast"
    /\ Visits(1) = <<1, 3, 2>>

\* C2: a broadcast issued through Context by the handler of node K while an
\* outer traversal is under way runs to its end, with everything it triggers,
\* before the outer dispatch does anything further: K's handler has not
\* returned when the nested broadcast starts, the next thing to happen in the
\* outer dispatch is the return of K's handler, by then the nested
\* broadcast has offered the whole tree in pre-order and every handler it or a
\* dispatch it triggered has entered has returned, and no event of the nested
\* broadcast follows.  The nested traversal sees the outer one's changes: a
\* node the outer dispatch has already handed an Increment enters the nested
\* handler with its counter raised by that Increment.
C2_NestedRunsToCompletion ==
    \A d \in Dispatches :
        ( /\ msgs[d].mode = "broadcast" /\ msgs[d].from # 0
          /\ \E j \in 1..Len(log) : log[j].d = d ) =>
            LET outer == msgs[d].parent
                K == msgs[d].from
                In == {j \in 1..Len(log) : log[j].d \in Triggered({d})}
                first == CHOOSE j \in In : \A k \in In : j <= k
                After == {j \in 1..Len(log) : log[j].d = outer /\ j > first}
                next == CHOOSE j \in After : \A k \in After : j <= k
            IN  /\ \A j \in 1..Len(log) :
                      (log[j].d = outer /\ log[j].node = K /\ log[j].ev = "return")
                      => j > first
                /\ After # {} =>
                      /\ log[next].ev = "return" /\ log[next].node = K
                      /\ \A j \in In : j < next
                      /\ Visits(d) = PreOrder(Root)
                      /\ \A e \in Triggered({d}) :
                            Len(EventsOf(e, "return")) = Len(EventsOf(e, "visit"))
                /\ \A j \in In, k \in 1..Len(log) :
                      ( /\ log[j].d = d /\ log[j].ev = "visit"
                        /\ log[k].d = outer /\ log[k].ev = "visit"
                        /\ log[k].node = log[j].node
                        /\ k < first
                        /\ \A m \in (k + 1)..(j - 1) :
                              log[m].node = log[k].node => log[m].ev = "return"
                        /\ log[k].node # K
                        /\ receive(log[k].node, msgs[outer].ty) = <<Add>> )
                      => log[j].at = (log[k].at + msgs[outer].val) % U16

\* the outer broadcast has gone on to a later node after a nested broadcast
\* that itself triggered a dispatch, and the nested broadcast met a node the
\* outer one had already incremented
C2_Witness ==
    \E d \in Dispatches :
        /\ msgs[d].mode = "broadcast" /\ msgs[d].from # 0
        /\ Triggered({d}) # {d}
        /\ \E j, k \in 1..Len(log) :
              /\ j < k
              /\ log[j].d = d /\ log[j].ev = "visit"
              /\ receive(log[j].node, msgs[d].ty) # NoBody
              /\ log[j].at = (base.counter[log[j].node] + msgs[msgs[d].parent].val) % U16
              /\ log[k].d = msgs[d].parent /\ log[k].ev = "visit"
              /\ log[k].node # msgs[d].from

\* C3: a targeted send (Framework::send_to, Context::send and their `with`
\* forms) offers the selected node to the visitor and nothing else, once: the
\* node's children, ancestors and siblings are not visited by it, and when
\* the call is a targeted send whose handler dispatched nothing, every other
\* node's counter, and the root's data unless the root was selected, are as
\* they were when the call was made.
C3_SendOnlySelected ==
    /\ \A d \in Dispatches :
          msgs[d].mode = "send" => Visits(d) = <<msgs[d].to>>
    /\ (calls > 0 /\ msgs[1].mode = "send" /\ NoNested) =>
          /\ \A n \in Nodes \ {msgs[1].to} : counter[n] = base.counter[n]
          /\ msgs[1].to # Root => data = base.data

\* a targeted send to the middle node of the chain has returned, the node
\* has reacted, and its parent and its child react to the payload type too
C3_Witness ==
    /\ Done /\ NoNested
    /\ app.tree = Chain
    /\ msgs[1].mode = "send" /\ msgs[1].to = 2
    /\ \A n \in Nodes : Receives(n, msgs[1].ty)
    /\ counter[2] # base.counter[2]

\* C4: a subtree send (send_sub and send_sub_with, of Framework and Context)
\* offers to the visitor the selected node and its descendants, in pre-order,
\* and no node outside that subtree; when the call is a subtree send during
\* which no handler dispatched, the counter of every node outside the
\* subtree, and the root's data unless the root was selected, are as they
\* were when the call was made.
C4_SendSubOnlySubtree ==
    /\ \A d \in Dispatches :
          msgs[d].mode = "send_sub" =>
              /\ IsPrefix(Visits(d), PreOrder(msgs[d].to))
              /\ Finished(d) =>
                    /\ Visits(d) = PreOrder(msgs[d].to)
                    /\ {Visits(d)[k] : k \in 1..Len(Visits(d))} = Descendants(msgs[d].to)
    /\ (calls > 0 /\ msgs[1].mode = "send_sub" /\ NoNested) =>
          /\ \A n \in Nodes \ Descendants(msgs[1].to) : counter[n] = base.counter[n]
          /\ msgs[1].to # Root => data = base.data

\* a subtree send to the middle node of the chain has returned: the node and
\* its child have reacted, and the root reacts to the payload type too
C4_Witness ==
    /\ Done /\ NoNested
    /\ app.tree = Chain
    /\ msgs[1].mode = "send_sub" /\ msgs[1].to = 2
    /\ Receives(Root, msgs[1].ty)
    /\ counter[2] # base.counter[2]
    /\ counter[3] # base.counter[3]

\* the number of times the handler of node n has been entered for payloads of
\* type ty during the current call
Runs(n, ty) ==
    Len(SelectSeq(log, LAMBDA e : e.ev = "visit" /\ e.node = n /\ msgs[e.d].ty = ty))

\* C5: no dispatch enters the handler of a node more than once, and when the
\* call has returned, the handler of a node for payload type P has run as many
\* times as there were dispatches of P, the outer one and the nested ones,
\* whose scope includes the node.
C5_OncePerDispatch ==
    /\ \A d \in Dispatches, n \in Nodes :
          Len(SelectSeq(EventsOf(d, "visit"), LAMBDA e : e.node = n)) <= 1
    /\ Done =>
          \A n \in Nodes, ty \in PayloadTypes :
              Receives(n, ty) =>
                  Runs(n, ty) =
                      Cardinality({d \in Dispatches : msgs[d].ty = ty /\ n \in ScopeOf(d)})

\* a call has returned during which two dispatches of the same payload type
\* reached a node that reacts to it, one of them nested
C5_Witness ==
    /\ Done
    /\ \E n \in Nodes, d \in Dispatches :
          /\ d > 1
          /\ msgs[d].ty = msgs[1].ty
          /\ Receives(n, msgs[1].ty)
          /\ n \in ScopeOf(1) \cap ScopeOf(d)
          /\ Runs(n, msgs[1].ty) = 2

\* C6 as stated: a node with no reception capability for the payload type P
\* the call dispatches keeps its state throughout the call, whatever the
\* handlers of the other nodes do, nested dispatches included.
C6_Original ==
    \A n \in Nodes :
        (calls > 0 /\ ~Receives(n, msgs[1].ty)) =>
            /\ counter[n] = base.counter[n]
            /\ n = Root => data = base.data

\* C6 (amended): no dispatch of a payload type P alters a node that has no
\* reception capability for P: the node's counter is the same when its
\* receive returns as when it was entered; and a node with no reception
\* capability for any payload type dispatched during the call, the outer
\* dispatch and the nested ones, has the state it had when the call was made.
C6_NoCapabilityNoChange ==
    /\ \A j, k \in 1..Len(log) :
          ( /\ j < k
            /\ log[j].ev = "visit" /\ log[k].ev = "return"
            /\ log[j].d = log[k].d /\ log[j].node = log[k].node
            /\ ~Receives(log[j].node, msgs[log[j].d].ty) )
          => log[k].at = log[j].at
    /\ \A n \in Nodes :
          (calls > 0 /\ \A d \in Dispatches : ~Receives(n, msgs[d].ty)) =>
              /\ counter[n] = base.counter[n]
              /\ n = Root => data = base.data

\* a call has returned in which a node without a reception capability for
\* the outer payload type was offered it, returned unchanged, and was then
\* altered by a nested dispatch of a type it does receive, while the root,
\* with no reception capability at all, was offered both and is unchanged
C6_Witness ==
    /\ Done
    /\ Len(msgs) > 1
    /\ app.recv[Root] = Plain
    /\ Len(SelectSeq(log, LAMBDA e : e.node = Root /\ e.ev = "return")) = 2
    /\ \E n \in Nodes :
          /\ ~Receives(n, msgs[1].ty)
          /\ \E j \in 1..Len(log) :
                log[j].ev = "return" /\ log[j].d = 1 /\ log[j].node = n
          /\ counter[n] # base.counter[n]

\* C7: a broadcast of a payload type that no node of the tree receives does
\* nothing: every receive entered is the empty default body, no dispatch is
\* issued from inside it, the counters, the root's data and the payload stay
\* as they were when the call was made, and the traversal runs to its end
\* over the whole tree.
C7_BroadcastWithoutReceivers ==
    ( /\ calls > 0
      /\ msgs[1].mode = "broadcast"
      /\ \A n \in Nodes : ~Receives(n, msgs[1].ty) ) =>
        /\ NoNested
        /\ counter = base.counter
        /\ data = base.data
        /\ msgs[1].val = msgs[1].sent
        /\ \A k \in 1..Len(stack) : stack[k].op = "receive" => stack[k].i = 1
        /\ Done => Visits(1) = PreOrder(Root)
        /\ Done \/ ENABLED Next

\* a broadcast of a payload type nobody receives has returned, in a tree
\* whose nodes all react to the other payload type
C7_Witness ==
    /\ Done
    /\ msgs[1].mode = "broadcast"
    /\ \A n \in Nodes : ~Receives(n, msgs[1].ty)
    /\ \A n \in Nodes : \E ty \in PayloadTypes : Receives(n, ty)
    /\ Len(EventsOf(1, "return")) = Cardinality(Nodes)

\* C8: scenario C.  With the three counters at 2, Framework::send of
\* Increment(1) returns with (Root, Child, ChildChild) = (3, 2, 3), and the
\* Decrement that ChildChild broadcasts finds Child's counter at 3, its own
\* increment already applied, and leaves it at 2.
C8_ScenarioC ==
    ( /\ app = ScenarioC
      /\ calls > 0
      /\ msgs[1].mode = "broadcast" /\ msgs[1].ty = Increment /\ msgs[1].val = 1 ) =>
        /\ base.counter = <<2, 2, 2>>
        /\ Done => counter = <<3, 2, 3>>
        /\ \A j \in 1..Len(log) :
              (msgs[log[j].d].ty = Decrement /\ log[j].node = 2) =>
                  log[j].at = (IF log[j].ev = "visit" THEN 3 ELSE 2)

\* scenario C has run to its end
C8_Witness ==
    /\ app = ScenarioC
    /\ Done
    /\ msgs[1].mode = "broadcast" /\ msgs[1].ty = Increment /\ msgs[1].val = 1
    /\ Len(msgs) = 2
    /\ counter = <<3, 2, 3>>
    /\ \E j \in 1..Len(log) :
          log[j] = [ev |-> "return", d |-> 2, node |-> 2, at |-> 2]

\* C9: in the test application, whenever the Framework is between calls each
\* counter is its initial value, 0, plus the sum of the values sent by the
\* calls whose scope includes the node: a broadcast counts for the three
\* nodes, a subtree send for the selected node and its descendants, a
\* targeted send for the selected node alone.
C9_TestAppCounters ==
    (app = TestApp /\ stack = << >>) => counter = expected

\* the calls of tests.rs:53-66 have been made: a broadcast, a subtree send
\* at child and a targeted send at child.child
C9_Witness ==
    /\ app = TestApp
    /\ Done
    /\ calls = 3
    /\ msgs[1].mode = "send" /\ msgs[1].to = 3
    /\ counter = <<1, 2, 3>>

\* the value the payload of dispatch d was built with: for a `with` form the
\* root's data as it was when the dispatch was issued
Sent(d) == IF msgs[d].with THEN msgs[d].seen ELSE msgs[d].val

\* what the dispatches 1..k add to the counter of node n when each handler
\* adds or subtracts the value its dispatch was built with
RECURSIVE Tally(_, _)
Tally(n, k) ==
    IF k = 0 THEN 0
    ELSE Tally(n, k - 1) +
         (IF n \in ScopeOf(k) /\ Receives(n, msgs[k].ty)
          THEN (IF msgs[k].ty = Increment THEN Sent(k) ELSE 0 - Sent(k))
          ELSE 0)

\* C10: a dispatch made with a `with` form (send_with, send_to_with,
\* send_sub_with, of Framework and of Context) has the effect of the plain
\* form of the same addressing carrying constructor(fields), with fields read
\* from the root when the dispatch is issued: when a call has returned, every
\* counter is its value at the call plus what the dispatches of the call bring
\* it, a `with` dispatch counting for the value of the root's data at the
\* moment it was issued, whatever happened to the data afterwards.  In the
\* test application, where data.data = 1, send_with of an Increment adds 1 to
\* every counter.
C10_WithIsPlainOfFieldsRead ==
    /\ Done =>
          \A n \in Nodes : counter[n] = (base.counter[n] + Tally(n, Len(msgs))) % U16
    /\ ( /\ Done /\ app = TestApp
         /\ msgs[1].with /\ msgs[1].mode = "broadcast" /\ msgs[1].ty = Increment ) =>
          \A n \in Nodes : counter[n] = base.counter[n] + 1

\* a call has returned in which a handler issued a `with` dispatch after
\* the root had changed its data, and a node reacted to that dispatch
C10_Witness ==
    /\ Done
    /\ \E d \in Dispatches :
          /\ d > 1
          /\ msgs[d].with
          /\ msgs[d].seen # base.data
          /\ data = msgs[d].seen
          /\ \E n \in ScopeOf(d) : Receives(n, msgs[d].ty)

\* C11 as stated: a `with` form whose selector returns a node of the tree is
\* stopped by an assertion before its payload is dispatched: no dispatch built
\* from a node ever offers a node to its visitor.
C11_ActorFieldsCaught ==
    \A d \in Dispatches :
        (msgs[d].with /\ is_actor(msgs[d].fields)) => EventsOf(d, "visit") = << >>

\* the writes to the payload that the handler of node n makes for type ty
Grows(n, ty) ==
    Cardinality({i \in 1..Len(app.recv[n][ty]) : app.recv[n][ty][i].op = "grow"})

\* the writes made to the payload of dispatch d by the handlers that had
\* returned before the j-th entry of the history
RECURSIVE GrowsBefore(_, _)
GrowsBefore(d, j) ==
    IF j <= 1 THEN 0
    ELSE GrowsBefore(d, j - 1) +
         (IF log[j - 1].d = d /\ log[j - 1].ev = "return"
          THEN Grows(log[j - 1].node, msgs[d].ty) ELSE 0)

\* the handler of node n for type ty adds the payload to the counter before
\* anything else and does nothing else to the counter
AddsFirst(n, ty) == app.recv[n][ty] \in {<<Add>>, <<Add, Grow>>}

\* the j-th entry of the history is the entry of a handler and the k-th its
\* return
Activation(j, k) ==
    /\ j < k
    /\ log[j].ev = "visit" /\ log[k].ev = "return"
    /\ log[j].d = log[k].d /\ log[j].node = log[k].node

\* C12 as stated: within one traversal every reacting node observes the same
\* payload value: any two handlers of the traversal that add the payload to
\* their counter add the same amount.
C12_SameValueForAll ==
    \A j, k, m, n \in 1..Len(log) :
        ( /\ Activation(j, k) /\ Activation(m, n)
          /\ log[j].d = log[m].d
          /\ AddsFirst(log[j].node, msgs[log[j].d].ty)
          /\ AddsFirst(log[m].node, msgs[log[m].d].ty) )
        => (log[k].at - log[j].at) % U16 = (log[n].at - log[m].at) % U16

\* C12 (amended): the handlers of a traversal are handed one payload, through
\* a mutable reference: a node observes the value the payload was dispatched
\* with as long as no handler entered before it in the traversal has written
\* to the payload, and the payload itself keeps that value until a handler
\* writes to it.
C12_SameValueUntilWritten ==
    /\ \A j, k \in 1..Len(log) :
          ( /\ Activation(j, k)
            /\ AddsFirst(log[j].node, msgs[log[j].d].ty)
            /\ GrowsBefore(log[j].d, j) = 0 )
          => log[k].at = (log[j].at + msgs[log[j].d].sent) % U16
    /\ \A d \in Dispatches :
          (\A n \in ScopeOf(d) : Grows(n, msgs[d].ty) = 0) => msgs[d].val = msgs[d].sent

\* a broadcast has returned in which the first two nodes added the value
\* sent and the second then wrote to the payload, so that the third added
\* another value
C12_Witness ==
    /\ Done
    /\ app.tree = Chain
    /\ msgs[1].mode = "broadcast"
    /\ app.recv = <<Counter, Grower, Counter>>
    /\ counter[1] = base.counter[1] + msgs[1].sent
    /\ counter[2] = base.counter[2] + msgs[1].sent
    /\ counter[3] = base.counter[3] + msgs[1].sent + 1

\* C13: the payload of a dispatch is one mutable value handed to the reacting
\* nodes in traversal order: a handler observes the value the payload was
\* dispatched with raised by every write the handlers entered before it in the
\* traversal have made, and when the call has returned the caller's payload
\* holds the writes of all the handlers of the traversal.
C13_PayloadThreaded ==
    /\ \A j, k \in 1..Len(log) :
          ( /\ Activation(j, k)
            /\ AddsFirst(log[j].node, msgs[log[j].d].ty) )
          => log[k].at =
                (log[j].at + msgs[log[j].d].sent + GrowsBefore(log[j].d, j)) % U16
    /\ \A d \in Dispatches :
          Finished(d) =>
              msgs[d].val = (msgs[d].sent + GrowsBefore(d, Len(log) + 1)) % U16

\* a broadcast of the chain has returned in which the root and its child
\* each wrote to the payload: the last node added the value sent plus two and
\* the caller finds its payload raised by two
C13_Witness ==
    /\ Done
    /\ app.tree = Chain
    /\ msgs[1].mode = "broadcast" /\ ~msgs[1].with
    /\ app.recv = <<Grower, GrowOnly, Counter>>
    /\ counter[3] = base.counter[3] + msgs[1].sent + 2
    /\ msgs[1].val = msgs[1].sent + 2

\* the kinds of the nodes of the program
Kinds == {Kind(n) : n \in Nodes}

\* node n was offered to the visitor of dispatch d
Offered(d, n) == \E k \in 1..Len(Visits(d)) : Visits(d)[k] = n

\* C14 as stated: in a tree of derived structs and enums, accept offers an
\* enum node to the visitor like a struct node, before the fields of the
\* variant it holds: a broadcast or subtree send that has returned has offered
\* the nodes of its scope, the enums among them, in pre-order.
C14_EnumOffersItself ==
    \A d \in Dispatches :
        ( /\ Kinds \subseteq {"struct", "enum"}
          /\ msgs[d].mode \in {"broadcast", "send_sub"}
          /\ Finished(d) )
        => Visits(d) = PreOrder(msgs[d].to)

\* C16 as stated: a leaf that uses the default accept and has a reception
\* capability for P is offered to the visitor by a broadcast or subtree send
\* of P whose scope includes it.
C16_DefaultLeafOffered ==
    \A d \in Dispatches, n \in Nodes :
        ( /\ msgs[d].mode \in {"broadcast", "send_sub"}
          /\ Finished(d)
          /\ n \in ScopeOf(d)
          /\ Kind(n) = "default"
          /\ Receives(n, msgs[d].ty) )
        => Offered(d, n)

\* C16 (amended): a leaf that derives Actor is offered once by every
\* broadcast or subtree send that has returned and whose scope includes it,
\* as it is by a send targeted at it; a type left with the default accept is
\* offered by a send targeted at it and by nothing else: a broadcast or a
\* subtree send, even one that selects it, never enters its handler and leaves
\* its counter as it was.
C16_LeafOfferedOnlyIfDerived ==
    /\ \A d \in Dispatches, n \in Nodes :
          ( /\ Finished(d)
            /\ n \in ScopeOf(d)
            /\ Kind(n) = "struct" /\ Children(n) = << >>
            /\ Kinds \subseteq {"struct", "default"} )
          => Len(SelectSeq(EventsOf(d, "visit"), LAMBDA e : e.node = n)) = 1
    /\ \A d \in Dispatches, n \in Nodes :
          Kind(n) = "default" =>
              /\ Offered(d, n) => (msgs[d].mode = "send" /\ msgs[d].to = n)
              /\ (msgs[d].mode = "send" /\ msgs[d].to = n) => Visits(d) = <<n>>
    /\ \A n \in Nodes :
          ( /\ calls > 0 /\ NoNested
            /\ Kind(n) = "default"
            /\ ~(msgs[1].mode = "send" /\ msgs[1].to = n) )
          => counter[n] = base.counter[n]

\* a broadcast of Increment has returned over the chain whose last node is
\* left with the default accept and reacts to Increment: the two derived
\* nodes above it have reacted and it has not been offered
C16_Witness ==
    /\ Done
    /\ app.tree = Chain
    /\ Kind(3) = "default"
    /\ msgs[1].mode = "broadcast" /\ msgs[1].ty = Increment
    /\ Receives(3, Increment)
    /\ Visits(1) = <<1, 2>>
    /\ counter[2] # base.counter[2]
    /\ counter[3] = base.counter[3]

\* C15: the traversal goes on into the fields of a node whether or not the
\* node reacts to the payload: a broadcast or subtree send that has returned
\* has offered every node of its scope, the nodes whose ancestors in the scope
\* have no reception capability for the payload type included, and when no
\* handler dispatched, a node that adds the payload has added it.
C15_ChildrenRegardless ==
    /\ \A d \in Dispatches, n \in Nodes :
          ( /\ msgs[d].mode \in {"broadcast", "send_sub"}
            /\ Finished(d)
            /\ n \in ScopeOf(d) )
          => /\ Offered(d, n)
             /\ \A j \in 1..Len(Children(n)) : Offered(d, Children(n)[j])
    /\ \A n \in Nodes :
          ( /\ Done /\ NoNested
            /\ msgs[1].mode \in {"broadcast", "send_sub"}
            /\ n \in ScopeOf(1)
            /\ app.recv[n][msgs[1].ty] = <<Add>> )
          => counter[n] = (base.counter[n] + msgs[1].sent) % U16

\* a broadcast of Increment has returned over the chain whose root and
\* middle node have no reception capability for Increment: the last node,
\* which has one, has reacted
C15_Witness ==
    /\ Done
    /\ app.tree = Chain
    /\ msgs[1].mode = "broadcast" /\ msgs[1].ty = Increment
    /\ ~Receives(1, Increment) /\ ~Receives(2, Increment)
    /\ app.recv[3] = Counter
    /\ Visits(1) = <<1, 2, 3>>
    /\ counter = [base.counter EXCEPT ![3] = @ + msgs[1].sent]

\* the nodes a dispatch of the given addressing offers, in order
Listing(mode, to) ==
    CASE mode = "broadcast" -> PreOrder(Root)
      [] mode = "send"      -> <<to>>
      [] mode = "send_sub"  -> PreOrder(to)

\* the handlers a dispatch has entered, in order
Entered(d) == SelectSeq(Visits(d), LAMBDA n : Receives(n, msgs[d].ty))

\* C18: a dispatch issued through Context offers the nodes that the
\* Framework's dispatch of the same addressing offers, in the same order, the
\* getter being applied to the root whatever node issued it: the offers of a
\* dispatch are what its addressing lists from the root, and a nested dispatch
\* and a Framework dispatch of the same addressing that have both returned
\* have made the same offers and, for the same payload type, entered the same
\* handlers.
C18_ContextAsFramework ==
    /\ \A d \in Dispatches :
          /\ IsPrefix(Visits(d), Listing(msgs[d].mode, msgs[d].to))
          /\ Finished(d) => Visits(d) = Listing(msgs[d].mode, msgs[d].to)
    /\ \A d, e \in Dispatches :
          ( /\ msgs[d].from = 0 /\ msgs[e].from # 0
            /\ msgs[d].mode = msgs[e].mode /\ msgs[d].to = msgs[e].to
            /\ Finished(d) /\ Finished(e) )
          => /\ Visits(d) = Visits(e)
             /\ msgs[d].ty = msgs[e].ty => Entered(d) = Entered(e)

\* a subtree send at the middle node of the chain, made on the Framework,
\* has returned after the handler of the last node made the same subtree send
\* through its Context: both offered the middle node and then the last
C18_Witness ==
    /\ Done
    /\ app.tree = Chain
    /\ Len(msgs) = 2
    /\ msgs[1].mode = "send_sub" /\ msgs[1].to = 2
    /\ msgs[2].mode = "send_sub" /\ msgs[2].to = 2 /\ msgs[2].from = 3
    /\ Visits(1) = <<2, 3>>
    /\ Visits(2) = <<2, 3>>

\* C17: every dispatch terminates: whatever the tree and the handlers, a call
\* of broadcast, send or send_sub on the Framework goes on until it has
\* returned, so while a dispatch is active and has not panicked, a next step
\* exists (the call stack never runs out under it).
C17_EveryDispatchReturns ==
    (stack # << >> /\ Top.op # "panic") => ENABLED ExtNext

\* the place in the history of an event of dispatch d at node n
Logged(ev, d, n) ==
    \E j \in 1..Len(log) : log[j].ev = ev /\ log[j].d = d /\ log[j].node = n

EventAt(ev, d, n) ==
    CHOOSE j \in 1..Len(log) : log[j].ev = ev /\ log[j].d = d /\ log[j].node = n

\* dispatch e is a broadcast that has returned, issued in dispatch d by the
\* handler of a node that reacts to e's payload type
Reentrant(d, e) ==
    /\ msgs[e].mode = "broadcast"
    /\ msgs[e].parent = d
    /\ msgs[e].from # 0
    /\ Receives(msgs[e].from, msgs[e].ty)
    /\ Finished(e)

\* the nested broadcast covered the tree and entered the handler of the node
\* that issued it, inside that node's outer activation, as one block
ActivatedWithin(d, e) ==
    LET k == msgs[e].from
    IN  /\ Visits(e) = PreOrder(Root)
        /\ Logged("visit", e, k) /\ Logged("return", e, k)
        /\ Logged("visit", d, k)
        /\ EventAt("visit", d, k) < EventAt("visit", e, k)
        /\ Logged("return", d, k) => EventAt("return", e, k) < EventAt("return", d, k)
        /\ \A j \in 1..Len(log) :
              (EventAt("visit", e, Root) < j /\ j < EventAt("return", e, k))
              => log[j].d # d

\* the outer activation, going on with `self.counter += message.0`, returned
\* with the counter the nested activation left plus the payload
Observed(d, e) ==
    LET k == msgs[e].from
        body == receive(k, msgs[d].ty)
    IN  ( /\ Logged("return", d, k)
          /\ Len(body) = 3 /\ body[3] = Add )
        => log[EventAt("return", d, k)].at
              = (log[EventAt("return", e, k)].at + msgs[d].val) % U16

ContainerKinds == {"held", "each", "map"}

\* the nodes a traversal entered at n is to offer when containers forward to
\* the values they hold and derived records offer themselves first
RECURSIVE Offers(_), OffersAll(_)
Offers(n) ==
    (IF Kind(n) \in ContainerKinds THEN << >> ELSE <<n>>) \o OffersAll(Children(n))
OffersAll(cs) ==
    IF cs = << >> THEN << >> ELSE Offers(cs[1]) \o OffersAll(SubSeq(cs, 2, Len(cs)))

InSeq(x, q) == \E j \in 1..Len(q) : q[j] = x

\* C19: a container forwards the visitor to the values it holds and is not
\* offered by its own accept: in a tree of derived records and containers, a
\* broadcast or subtree send offers the records in order, each value held
\* once (none for an empty Option), no container and no key of a map, and
\* when it has returned exactly the nodes offered have reacted, once.
C19_ContainersForward ==
    Kinds \subseteq ({"struct"} \cup ContainerKinds)
    => /\ \A d \in Dispatches :
            msgs[d].mode \in {"broadcast", "send_sub"}
            => LET from == IF msgs[d].mode = "broadcast" THEN Root ELSE msgs[d].to
               IN  /\ IsPrefix(Visits(d), Offers(from))
                   /\ Finished(d) => Visits(d) = Offers(from)
       /\ ( /\ Done /\ NoNested
            /\ msgs[1].mode \in {"broadcast", "send_sub"}
            /\ \A n \in Nodes : app.recv[n] = CounterDec )
          => LET from == IF msgs[1].mode = "broadcast" THEN Root ELSE msgs[1].to
                 sign == IF msgs[1].ty = Increment THEN 1 ELSE -1
             IN  \A n \in Nodes :
                    counter[n] = IF InSeq(n, Offers(from))
                                 THEN (base.counter[n] + sign * msgs[1].val) % U16
                                 ELSE base.counter[n]

\* a broadcast has returned over the root whose field is a map of two values
\* and one key: the root and the two values were offered, in order, and have
\* reacted; the map and the key were not
C19_Witness ==
    /\ Done
    /\ app.tree = Wide
    /\ Kind(2) = "map" /\ Keys(2) = <<5>>
    /\ msgs[1].mode = "broadcast" /\ msgs[1].ty = Increment /\ msgs[1].val = 1
    /\ Visits(1) = <<1, 3, 4>>
    /\ counter = [base.counter EXCEPT ![1] = @ + 1, ![3] = @ + 1, ![4] = @ + 1]

====
